---------------------------- MODULE Spec2Model ----------------------------
(***************************************************************************)
(* A byte-level model of LibFS.c: a block-structured file system on a      *)
(* simulated disk of fixed-size sectors.  The disk is an array of sectors  *)
(* of SECTOR_SIZE bytes; bitmaps, inode records and directory entries are  *)
(* decoded from and encoded into those bytes exactly as the C code does    *)
(* with its pointer casts (ints are 4 bytes, little-endian).               *)
(***************************************************************************)
EXTENDS Integers, Sequences, FiniteSets, TLC

(***************************************************************************)
(* Geometry.  SECTOR_SIZE and TOTAL_SECTORS come from LibDisk.h, MAX_FILES *)
(* and MAX_SECTORS_PER_FILE from LibFS.h; the layout below is computed     *)
(* from them by the macros of LibFS.c.                                     *)
(***************************************************************************)
SECTOR_SIZE == 64
TOTAL_SECTORS == 584
MAX_FILES == 268
MAX_SECTORS_PER_FILE == 2

MAX_PATH == 256
MAX_NAME == 16
MAX_OPEN_FILES == 256
INT_SIZE == 4

SUPERBLOCK_START_SECTOR == 0
INODE_BITMAP_START_SECTOR == 1
INODE_BITMAP_SIZE == (MAX_FILES + 7) \div 8
INODE_BITMAP_SECTORS == (INODE_BITMAP_SIZE + SECTOR_SIZE - 1) \div SECTOR_SIZE
SECTOR_BITMAP_START_SECTOR == INODE_BITMAP_START_SECTOR + INODE_BITMAP_SECTORS
SECTOR_BITMAP_SIZE == (TOTAL_SECTORS + 7) \div 8
SECTOR_BITMAP_SECTORS == (SECTOR_BITMAP_SIZE + SECTOR_SIZE - 1) \div SECTOR_SIZE
INODE_TABLE_START_SECTOR == SECTOR_BITMAP_START_SECTOR + SECTOR_BITMAP_SECTORS
SIZEOF_INODE == INT_SIZE * (2 + MAX_SECTORS_PER_FILE)
INODES_PER_SECTOR == SECTOR_SIZE \div SIZEOF_INODE
INODE_TABLE_SECTORS == (MAX_FILES + INODES_PER_SECTOR - 1) \div INODES_PER_SECTOR
DATABLOCK_START_SECTOR == INODE_TABLE_START_SECTOR + INODE_TABLE_SECTORS
SIZEOF_DIRENT == MAX_NAME + INT_SIZE
DIRENTS_PER_SECTOR == SECTOR_SIZE \div SIZEOF_DIRENT

(* error codes of LibFS.h *)
E_NONE == "E_NONE"
E_GENERAL == "E_GENERAL"
E_CREATE == "E_CREATE"
E_NO_SUCH_FILE == "E_NO_SUCH_FILE"
E_NO_SUCH_DIR == "E_NO_SUCH_DIR"
E_TOO_MANY_OPEN_FILES == "E_TOO_MANY_OPEN_FILES"
E_BAD_FD == "E_BAD_FD"
E_FILE_IN_USE == "E_FILE_IN_USE"
E_FILE_TOO_BIG == "E_FILE_TOO_BIG"
E_NO_SPACE == "E_NO_SPACE"
E_SEEK_OUT_OF_BOUNDS == "E_SEEK_OUT_OF_BOUNDS"
E_DIR_NOT_EMPTY == "E_DIR_NOT_EMPTY"
E_ROOT_DIR == "E_ROOT_DIR"
E_BUFFER_TOO_SMALL == "E_BUFFER_TOO_SMALL"

(***************************************************************************)
(* C arithmetic and byte buffers.  Buffers are tuples of bytes 0..255,     *)
(* addressed from offset 0 as in C.                                        *)
(***************************************************************************)
Min(a, b) == IF a < b THEN a ELSE b

(* C integer division and remainder: truncation toward zero *)
CDiv(a, b) == IF a >= 0 THEN a \div b ELSE -((-a) \div b)
CMod(a, b) == a - b * CDiv(a, b)

Pow2(k) == CASE k = 0 -> 1 [] k = 1 -> 2 [] k = 2 -> 4 [] k = 3 -> 8
             [] k = 4 -> 16 [] k = 5 -> 32 [] k = 6 -> 64 [] k = 7 -> 128

Zeros(n) == [i \in 1..n |-> 0]
ZeroSector == Zeros(SECTOR_SIZE)

(* memcpy(buf + off, src, Len(src)) *)
Put(buf, off, src) ==
  [i \in 1..Len(buf) |->
     IF i > off /\ i <= off + Len(src) THEN src[i - off] ELSE buf[i]]

(* the n bytes of buf from offset off *)
Get(buf, off, n) == [i \in 1..n |-> buf[off + i]]

(* *(int* )(buf + off): a little-endian two's-complement 32-bit int *)
I32(buf, off) ==
  LET b0 == buf[off + 1]
      b1 == buf[off + 2]
      b2 == buf[off + 3]
      b3 == buf[off + 4]
      hi == IF b3 >= 128 THEN b3 - 256 ELSE b3
  IN  hi * 16777216 + b2 * 65536 + b1 * 256 + b0

(* the four bytes of the int v *)
I32Bytes(v) ==
  LET u  == IF v >= 0 THEN v ELSE v + 2147483647 + 1
      b3 == (u \div 16777216) + (IF v >= 0 THEN 0 ELSE 128)
  IN  << u % 256, (u \div 256) % 256, (u \div 65536) % 256, b3 >>

PutI32(buf, off, v) == Put(buf, off, I32Bytes(v))

(***************************************************************************)
(* Disk layer (LibDisk): TOTAL_SECTORS sectors, all zero when the disk is  *)
(* initialised.  The disk is kept as a function on the sectors that are    *)
(* not all zero.                                                           *)
(***************************************************************************)
ValidSector(s) == s >= 0 /\ s < TOTAL_SECTORS

(* Disk_Read: the content of sector s (callers test ValidSector first) *)
Disk_Read(d, s) == IF s \in DOMAIN d THEN d[s] ELSE ZeroSector

(* Disk_Write: sector s becomes buf *)
Disk_Write(d, s, buf) ==
  IF buf = ZeroSector
    THEN [x \in (DOMAIN d) \ {s} |-> d[x]]
    ELSE [x \in (DOMAIN d) \cup {s} |-> IF x = s THEN buf ELSE d[x]]

(***************************************************************************)
(* Bitmap engine.                                                          *)
(***************************************************************************)
signum(n) == IF n = 0 THEN 0 ELSE IF n > 0 THEN 1 ELSE -1

(* isBitSet(c, n): bit n of byte c, bit 0 being the mask 0x80 *)
isBitSet(c, n) == (c \div Pow2(7 - n)) % 2 = 1

(* setBit(c, n) *)
setBit(c, n) == IF isBitSet(c, n) THEN c ELSE c + Pow2(7 - n)

(* c & mask[n] of bitmap_reset: byte c with bit n cleared *)
clearBit(c, n) == IF isBitSet(c, n) THEN c - Pow2(7 - n) ELSE c

(* the byte bits[remaining] of bitmap_init: the first r bits set *)
PrefixByte(r) == IF r = 0 THEN 0 ELSE 256 - Pow2(8 - r)

(* write the sectors first..last-1 with buf *)
RECURSIVE WriteRun(_, _, _, _)
WriteRun(d, first, last, buf) ==
  IF first >= last THEN d
  ELSE WriteRun(IF ValidSector(first) THEN Disk_Write(d, first, buf) ELSE d,
                first + 1, last, buf)

(* bitmap_init(start, num, nbits): the disk after the call *)
bitmap_init(d, start, num, nbits) ==
  LET sectors_set_to_one  == (nbits \div 8) \div SECTOR_SIZE
      remaining_bytes     == (nbits \div 8) % SECTOR_SIZE
      sectors_set_to_zero == num - sectors_set_to_one - signum(remaining_bytes)
      remaining           == nbits % 8
      full    == [i \in 1..SECTOR_SIZE |-> 255]
      d1      == WriteRun(d, start, start + sectors_set_to_one, full)
      partial == [i \in 1..SECTOR_SIZE |->
                    IF i - 1 < remaining_bytes THEN 255
                    ELSE IF i - 1 = remaining_bytes THEN PrefixByte(remaining)
                    ELSE 0]
      d2      == Disk_Write(d1, start + sectors_set_to_one, partial)
      rest    == [i \in 1..SECTOR_SIZE |->
                    IF i - 1 < remaining_bytes THEN 0 ELSE partial[i]]
      end_of_sector == start + sectors_set_to_one + 1 + sectors_set_to_zero
  IN  WriteRun(d2, start + sectors_set_to_one + 1, end_of_sector, rest)

(* bit j (counted from the start of the sector, MSB first) of a sector *)
SectorBit(buf, j) == isBitSet(buf[(j \div 8) + 1], j % 8)

SetSectorBit(buf, j) ==
  [buf EXCEPT ![(j \div 8) + 1] = setBit(@, j % 8)]

(* the bits of one sector that bitmap_first_unused examines: bytes_set_to_one *)
(* whole bytes and remaining_bits more when bytes_set_to_one < SECTOR_SIZE    *)
(* (last_block), every byte of the sector otherwise                           *)
BitsScanned(nbits) ==
  IF nbits \div 8 < SECTOR_SIZE
    THEN (nbits \div 8) * 8 + (nbits % 8)
    ELSE SECTOR_SIZE * 8

(* the scan of bitmap_first_unused from sector start + t on; `location`  *)
(* counts the bits examined so far and is never reset between sectors    *)
RECURSIVE ScanBitmap(_, _, _, _, _)
ScanBitmap(d, start, num, nbits, t) ==
  IF t >= num THEN [disk |-> d, loc |-> -1]
  ELSE IF ~ValidSector(start + t) THEN [disk |-> d, loc |-> -1]
  ELSE
    LET buf  == Disk_Read(d, start + t)
        P    == BitsScanned(nbits)
        free == {j \in 0..(P - 1) : ~SectorBit(buf, j)}
    IN  IF free = {}
          THEN ScanBitmap(d, start, num, nbits, t + 1)
          ELSE LET j == CHOOSE x \in free : \A y \in free : x <= y
               IN  [disk |-> Disk_Write(d, start + t, SetSectorBit(buf, j)),
                    loc  |-> t * P + j]

(* bitmap_first_unused(start, num, nbits): the disk after the call and the *)
(* value returned                                                          *)
bitmap_first_unused(d, start, num, nbits) == ScanBitmap(d, start, num, nbits, 0)

(* the value of number_bytes after the loop `while(number_bytes > SECTOR_SIZE)` *)
RECURSIVE ReduceBytes(_)
ReduceBytes(n) == IF n > SECTOR_SIZE THEN ReduceBytes(n - SECTOR_SIZE) ELSE n

(* bitmap_reset(start, num, ibit): the disk after the call and the value   *)
(* returned.  The sector read and written is always `start`; an index      *)
(* outside the buffer or the mask table touches no sector.                 *)
bitmap_reset(d, start, num, ibit) ==
  LET number_bytes   == CDiv(ibit, 8)
      remaining_bits == CMod(ibit, 8)
      nb  == ReduceBytes(number_bytes)
      buf == Disk_Read(d, start)
  IN  IF number_bytes > SECTOR_SIZE * num THEN [disk |-> d, ret |-> -1]
      ELSE IF nb < 0 \/ nb >= SECTOR_SIZE \/ remaining_bits < 0
        THEN [disk |-> d, ret |-> 0]
      ELSE [disk |-> Disk_Write(d, start,
                       [buf EXCEPT ![nb + 1] = clearBit(@, remaining_bits)]),
            ret  |-> 0]

(***************************************************************************)
(* Names and paths are C strings: tuples of character codes without the    *)
(* terminating NUL.                                                        *)
(***************************************************************************)
SLASH == 47

isalpha(c) == (c >= 65 /\ c <= 90) \/ (c >= 97 /\ c <= 122)
isdigit(c) == c >= 48 /\ c <= 57

(* illegal_filename(name) *)
illegal_filename(name) ==
  IF Len(name) > MAX_NAME - 1 THEN TRUE
  ELSE \E i \in 1..Len(name) :
         ~(isalpha(name[i]) \/ isdigit(name[i])
             \/ name[i] = 45 \/ name[i] = 95 \/ name[i] = 46)

(* the C string that starts at offset off of buf (it ends at the first NUL, *)
(* or at the end of the buffer)                                            *)
CStr(buf, off) ==
  LET nuls == {i \in (off + 1)..Len(buf) : buf[i] = 0}
      end  == IF nuls = {} THEN Len(buf) + 1
              ELSE CHOOSE x \in nuls : \A y \in nuls : x <= y
  IN  [i \in 1..(end - off - 1) |-> buf[off + i]]

(* strncpy(dst, name, MAX_NAME): name, padded with NULs to MAX_NAME bytes *)
NameBytes(name) ==
  [i \in 1..MAX_NAME |-> IF i <= Len(name) THEN name[i] ELSE 0]

(* the bytes of a dirent_t *)
DirentBytes(name, ino) == NameBytes(name) \o I32Bytes(ino)

(* ((dirent_t* )buf)[i].fname and .inode *)
DirentName(buf, i) == CStr(Get(buf, i * SIZEOF_DIRENT, MAX_NAME + INT_SIZE), 0)
DirentInode(buf, i) == I32(buf, i * SIZEOF_DIRENT + MAX_NAME)

(***************************************************************************)
(* Inode table.                                                            *)
(***************************************************************************)
(* the low 32 bits, as an int, of (2^64 + i) / n for i < 0: a division of *)
(* an int by a size_t is done in size_t, which the int is converted to    *)
UDivNeg(i, n) ==
  LET l3 == 65535
      l2 == 65535
      l1 == 65536 + (i \div 65536)
      l0 == i % 65536
      r3 == l3 % n
      r2 == (r3 * 65536 + l2) % n
      q1 == (r2 * 65536 + l1) \div n
      r1 == (r2 * 65536 + l1) % n
      q0 == (r1 * 65536 + l0) \div n
  IN  (IF q1 >= 32768 THEN q1 - 65536 ELSE q1) * 65536 + q0

(* INODE_TABLE_START_SECTOR + i / INODES_PER_SECTOR *)
InodeSector(i) ==
  INODE_TABLE_START_SECTOR +
    (IF i >= 0 THEN i \div INODES_PER_SECTOR ELSE UDivNeg(i, INODES_PER_SECTOR))

(* i - (inode_sector - INODE_TABLE_START_SECTOR) * INODES_PER_SECTOR *)
InodeOffset(i) ==
  IF i >= 0 THEN i % INODES_PER_SECTOR
  ELSE LET k == UDivNeg(i, INODES_PER_SECTOR) IN
       i - k * INODES_PER_SECTOR

(* word k of the inode at offset off of an inode-table sector buffer:      *)
(* 0 is size, 1 is type, 2 + j is data[j].  A word beyond the buffer is    *)
(* whatever the stack holds there: ub.                                     *)
InodeWord(buf, off, k, ub) ==
  LET at == off * SIZEOF_INODE + INT_SIZE * k
  IN  IF at >= 0 /\ at + INT_SIZE <= SECTOR_SIZE THEN I32(buf, at) ELSE ub

(* the buffer with word k of the inode at offset off set to v; a word      *)
(* beyond the buffer does not reach the disk                               *)
SetInodeWord(buf, off, k, v) ==
  LET at == off * SIZEOF_INODE + INT_SIZE * k
  IN  IF at >= 0 /\ at + INT_SIZE <= SECTOR_SIZE THEN PutI32(buf, at, v) ELSE buf

(* memset(inode, 0, sizeof(inode_t)) *)
ZeroInode(buf, off) == Put(buf, off * SIZEOF_INODE, Zeros(SIZEOF_INODE))

(***************************************************************************)
(* Path resolution.  `ub` stands for what the C code reads from memory it  *)
(* never wrote: ub.word is such an int, ub.dirent such a dirent_t.         *)
(***************************************************************************)
(* the slots of one dirent sector that find_child_inode compares while     *)
(* nentries entries remain: the loop breaks when i > nentries              *)
SlotsExamined(nentries) ==
  {i \in 0..(DIRENTS_PER_SECTOR - 1) : ~(i > nentries)}

(* the while loop of find_child_inode, from group idx on *)
RECURSIVE FindInGroups(_, _, _, _, _, _, _)
FindInGroups(d, pbuf, off, fname, idx, nentries, ub) ==
  IF nentries <= 0 THEN -1
  ELSE
    LET sec == InodeWord(pbuf, off, 2 + idx, ub.word)
    IN  IF ~ValidSector(sec) THEN -2
        ELSE
          LET buf  == Disk_Read(d, sec)
              hits == {i \in SlotsExamined(nentries) : DirentName(buf, i) = fname}
          IN  IF hits # {}
                THEN LET i == CHOOSE x \in hits : \A y \in hits : x <= y
                         child_inode == DirentInode(buf, i)
                     IN  IF ValidSector(InodeSector(child_inode))
                           THEN child_inode ELSE -2
                ELSE FindInGroups(d, pbuf, off, fname, idx + 1,
                                  nentries - DIRENTS_PER_SECTOR, ub)

(* find_child_inode(parent_inode, fname, ...): the child's inode, -1 when  *)
(* no entry has the name, -2 on any other failure.  The one-sector inode   *)
(* cache always holds what the disk holds, since resolution writes nothing *)
find_child_inode(d, parent_inode, fname, ub) ==
  LET pbuf == Disk_Read(d, InodeSector(parent_inode))
      off  == InodeOffset(parent_inode)
  IN  IF InodeWord(pbuf, off, 1, ub.word) # 1 THEN -2
      ELSE FindInGroups(d, pbuf, off, fname, 0,
                        InodeWord(pbuf, off, 0, ub.word), ub)

(* the tokens strsep(&lpath, "/") returns for the string s, empty ones too *)
RECURSIVE Tokens(_)
Tokens(s) ==
  LET cut == {i \in 1..Len(s) : s[i] = SLASH}
  IN  IF cut = {} THEN << s >>
      ELSE LET i == CHOOSE x \in cut : \A y \in cut : x <= y
           IN  << SubSeq(s, 1, i - 1) >> \o Tokens(SubSeq(s, i + 1, Len(s)))

(* the token loop of follow_path from token k on *)
RECURSIVE Walk(_, _, _, _, _, _, _)
Walk(d, toks, k, parent_inode, child_inode, fname, ub) ==
  IF k > Len(toks)
    THEN IF child_inode < -1
           THEN [ret |-> -1, set |-> FALSE, child |-> 0, fname |-> fname]
           ELSE [ret   |-> IF parent_inode = -1 /\ child_inode = 0
                             THEN 0 ELSE parent_inode,
                 set   |-> TRUE,
                 child |-> child_inode,
                 fname |-> fname]
  ELSE IF toks[k] = << >>
    THEN Walk(d, toks, k + 1, parent_inode, child_inode, fname, ub)
  ELSE IF illegal_filename(toks[k]) \/ child_inode < 0
    THEN [ret |-> -1, set |-> FALSE, child |-> 0, fname |-> fname]
  ELSE Walk(d, toks, k + 1, child_inode,
            find_child_inode(d, child_inode, toks[k], ub), toks[k], ub)

(* follow_path(path, &last_inode, last_fname): ret is the value returned   *)
(* (the parent's inode or -1); child is *last_inode, which is assigned     *)
(* only when set is TRUE; fname is last_fname                              *)
follow_path(d, path, ub) ==
  IF Len(path) = 0 \/ path[1] # SLASH
    THEN [ret |-> -1, set |-> FALSE, child |-> 0, fname |-> << >>]
    ELSE Walk(d, Tokens(SubSeq(path, 2, Min(Len(path), MAX_PATH))), 1,
              -1, 0, << >>, ub)

(***************************************************************************)
(* Create.                                                                 *)
(***************************************************************************)
(* an int divided by DIRENTS_PER_SECTOR (a size_t), back in an int *)
DivDirents(n) ==
  IF n >= 0 THEN n \div DIRENTS_PER_SECTOR ELSE UDivNeg(n, DIRENTS_PER_SECTOR)

(* the second half of add_inode: the dirent is put in the sector sec of    *)
(* group `group`, whose content is dbuf, and the parent is updated; pbuf   *)
(* is the parent's inode sector as add_inode holds it                      *)
AppendDirent(d, pbuf, poff, psector, group, sec, dbuf, file, child_inode, ub) ==
  LET size   == InodeWord(pbuf, poff, 0, ub.word)
      offset == size - group * DIRENTS_PER_SECTOR
      at     == offset * SIZEOF_DIRENT
      dbuf2  == IF at >= 0 /\ at + SIZEOF_DIRENT <= SECTOR_SIZE
                  THEN Put(dbuf, at, DirentBytes(file, child_inode))
                  ELSE dbuf
  IN  IF ~ValidSector(sec) THEN [disk |-> d, ret |-> -1]
      ELSE [disk |-> Disk_Write(Disk_Write(d, sec, dbuf2), psector,
                                SetInodeWord(pbuf, poff, 0, size + 1)),
            ret  |-> 0]

(* add_inode(type, parent_inode, file): the disk after the call and the    *)
(* value returned                                                          *)
add_inode(d, type, parent_inode, file, ub) ==
  LET a1 == bitmap_first_unused(d, INODE_BITMAP_START_SECTOR,
                                INODE_BITMAP_SECTORS, INODE_BITMAP_SIZE)
      child_inode == a1.loc
      csector == InodeSector(child_inode)
      coff    == InodeOffset(child_inode)
      cbuf    == SetInodeWord(ZeroInode(Disk_Read(a1.disk, csector), coff),
                              coff, 1, type)
      d2      == Disk_Write(a1.disk, csector, cbuf)
      psector == InodeSector(parent_inode)
      poff    == InodeOffset(parent_inode)
      pbuf    == Disk_Read(d2, psector)
      size    == InodeWord(pbuf, poff, 0, ub.word)
      group   == DivDirents(size)
  IN  IF child_inode < 0 THEN [disk |-> a1.disk, ret |-> -1]
      ELSE IF ~ValidSector(csector) THEN [disk |-> a1.disk, ret |-> -1]
      ELSE IF ~ValidSector(psector) THEN [disk |-> d2, ret |-> -1]
      ELSE IF InodeWord(pbuf, poff, 1, ub.word) # 1 THEN [disk |-> d2, ret |-> -2]
      ELSE IF group * DIRENTS_PER_SECTOR = size
        THEN (* a new disk sector is needed *)
          LET a2 == bitmap_first_unused(d2, SECTOR_BITMAP_START_SECTOR,
                                        SECTOR_BITMAP_SECTORS, SECTOR_BITMAP_SIZE)
              newsec == a2.loc
          IN  IF newsec < 0 THEN [disk |-> a2.disk, ret |-> -1]
              ELSE AppendDirent(a2.disk,
                                SetInodeWord(pbuf, poff, 2 + group, newsec),
                                poff, psector, group, newsec, ZeroSector,
                                file, child_inode, ub)
        ELSE
          LET sec == InodeWord(pbuf, poff, 2 + group, ub.word)
          IN  IF ~ValidSector(sec) THEN [disk |-> d2, ret |-> -1]
              ELSE AppendDirent(d2, pbuf, poff, psector, group, sec,
                                Disk_Read(d2, sec), file, child_inode, ub)

(* create_file_or_directory(type, pathname) on the file system fs: the     *)
(* disk, the last-error slot and the value returned                        *)
create_file_or_directory(fs, type, pathname, ub) ==
  LET fp == follow_path(fs.disk, pathname, ub)
      a  == add_inode(fs.disk, type, fp.ret, fp.fname, ub)
  IN  IF fp.ret >= 0
        THEN IF fp.child >= 0
               THEN [fs EXCEPT !.err = E_CREATE, !.ret = -1]
               ELSE IF a.ret >= 0
                      THEN [fs EXCEPT !.disk = a.disk, !.ret = 0]
                      ELSE [fs EXCEPT !.disk = a.disk, !.err = E_CREATE, !.ret = -1]
        ELSE [fs EXCEPT !.err = E_CREATE, !.ret = -1]

(***************************************************************************)
(* Remove.                                                                 *)
(***************************************************************************)
(* the loop of remove_inode that frees the data sectors of a file inode,   *)
(* from data[i] on                                                         *)
RECURSIVE FreeData(_, _, _, _, _)
FreeData(d, cbuf, coff, i, ub) ==
  IF i >= MAX_SECTORS_PER_FILE THEN d
  ELSE LET s == InodeWord(cbuf, coff, 2 + i, ub.word)
       IN  FreeData(IF s > 0
                      THEN bitmap_reset(d, SECTOR_BITMAP_START_SECTOR,
                                        SECTOR_BITMAP_SECTORS, s).disk
                      ELSE d,
                    cbuf, coff, i + 1, ub)

(* last_group of remove_inode: the group it takes the last dirent from *)
LastGroup(size) == DivDirents(size)

(* the dirent remove_inode moves into the freed slot: the one at offset    *)
(* size - start_entry - 1 of the sector of last_group; at offset -1 it is  *)
(* the memory before last_dirent_buffer                                    *)
LastDirent(lbuf, size, ub) ==
  LET offset == size - LastGroup(size) * DIRENTS_PER_SECTOR - 1
  IN  IF offset >= 0 /\ (offset + 1) * SIZEOF_DIRENT <= SECTOR_SIZE
        THEN Get(lbuf, offset * SIZEOF_DIRENT, SIZEOF_DIRENT)
        ELSE ub.dirent

(* the search loop of remove_inode from group `group` on: the first dirent *)
(* whose inode is child_inode gets the name and inode of `last`, and its   *)
(* sector is written back; last_dirent_buffer itself is never written      *)
RECURSIVE SwapWithLast(_, _, _, _, _, _, _)
SwapWithLast(d, pbuf, poff, group, child_inode, last, ub) ==
  IF group >= MAX_SECTORS_PER_FILE THEN [disk |-> d, ret |-> 0]
  ELSE
    LET sec == InodeWord(pbuf, poff, 2 + group, ub.word)
    IN  IF ~ValidSector(sec) THEN [disk |-> d, ret |-> -1]
        ELSE
          LET dbuf == Disk_Read(d, sec)
              hits == {e \in 0..(DIRENTS_PER_SECTOR - 1) :
                         DirentInode(dbuf, e) = child_inode}
          IN  IF hits = {}
                THEN SwapWithLast(d, pbuf, poff, group + 1, child_inode, last, ub)
                ELSE LET e == CHOOSE x \in hits : \A y \in hits : x <= y
                         name == SubSeq(CStr(last, 0), 1,
                                        Min(MAX_NAME, Len(CStr(last, 0))))
                     IN  [disk |-> Disk_Write(d, sec,
                                     Put(dbuf, e * SIZEOF_DIRENT,
                                         DirentBytes(name, I32(last, MAX_NAME)))),
                          ret  |-> 0]

(* remove_inode(type, parent_inode, child_inode): the disk after the call  *)
(* and the value returned                                                  *)
remove_inode(d, type, parent_inode, child_inode, ub) ==
  LET csector == InodeSector(child_inode)
      coff    == InodeOffset(child_inode)
      cbuf    == Disk_Read(d, csector)
      ctype   == InodeWord(cbuf, coff, 1, ub.word)
      csize   == InodeWord(cbuf, coff, 0, ub.word)
      d1      == IF ctype = 0 THEN FreeData(d, cbuf, coff, 0, ub) ELSE d
      d2      == Disk_Write(d1, csector, ZeroInode(cbuf, coff))
      d3      == bitmap_reset(d2, INODE_BITMAP_START_SECTOR,
                              INODE_BITMAP_SECTORS, child_inode).disk
      psector == InodeSector(parent_inode)
      poff    == InodeOffset(parent_inode)
      pbuf    == Disk_Read(d3, psector)
      psize   == InodeWord(pbuf, poff, 0, ub.word)
      last_sector == InodeWord(pbuf, poff, 2 + LastGroup(psize), ub.word)
      sw      == IF psize > 1
                   THEN SwapWithLast(d3, pbuf, poff, 0, child_inode,
                          LastDirent(Disk_Read(d3, last_sector), psize, ub), ub)
                   ELSE [disk |-> d3, ret |-> 0]
  IN  IF ~ValidSector(csector) THEN [disk |-> d, ret |-> -1]
      ELSE IF ctype # type THEN [disk |-> d, ret |-> -3]
      ELSE IF ctype = 1 /\ csize > 0 THEN [disk |-> d, ret |-> -2]
      ELSE IF ~ValidSector(psector) THEN [disk |-> d3, ret |-> -1]
      ELSE IF InodeWord(pbuf, poff, 1, ub.word) # 1 THEN [disk |-> d3, ret |-> -2]
      ELSE IF psize > 1 /\ ~ValidSector(last_sector) THEN [disk |-> d3, ret |-> -1]
      ELSE IF sw.ret < 0 THEN [disk |-> sw.disk, ret |-> -1]
      ELSE [disk |-> Disk_Write(sw.disk, psector,
                                SetInodeWord(pbuf, poff, 0, psize - 1)),
            ret  |-> 0]

(***************************************************************************)
(* Open-file table: open_files[fd] for the descriptors that were ever      *)
(* used; every other entry is all zero, as FS_Boot leaves it.              *)
(***************************************************************************)
FreeSlot == [inode |-> 0, size |-> 0, pos |-> 0]

Slot(of, fd) == IF fd \in DOMAIN of THEN of[fd] ELSE FreeSlot

SetSlot(of, fd, v) ==
  [x \in (DOMAIN of) \cup {fd} |-> IF x = fd THEN v ELSE of[x]]

(* a scan of the table that finds no slot *)
NoSlotHolds(of, inode) == FALSE

(* is_file_open(inode) *)
is_file_open(of, inode) ==
  \E i \in 0..(MAX_OPEN_FILES - 1) : Slot(of, i).inode = inode

(* a scan of the table from its last slot down *)
LastFreeSlot(of) ==
  LET free == {i \in 0..(MAX_OPEN_FILES - 1) : Slot(of, i).inode <= 0}
  IN  IF free = {} THEN -1 ELSE CHOOSE x \in free : \A y \in free : x >= y

(* new_file_fd() *)
new_file_fd(of) ==
  LET free == {i \in 0..(MAX_OPEN_FILES - 1) : Slot(of, i).inode <= 0}
  IN  IF free = {} THEN -1 ELSE CHOOSE x \in free : \A y \in free : x <= y

(* File_Create(file), Dir_Create(path) *)
File_Create(fs, file, ub) == create_file_or_directory(fs, 0, file, ub)

Dir_Create(fs, path, ub) == create_file_or_directory(fs, 1, path, ub)

(* File_Unlink(file) *)
File_Unlink(fs, file, ub) ==
  LET fp == follow_path(fs.disk, file, ub)
      r  == remove_inode(fs.disk, 0, fp.ret, fp.child, ub)
  IN  IF fp.ret >= 0
        THEN IF fp.child >= 0
               THEN IF is_file_open(fs.of, fp.child)
                      THEN [fs EXCEPT !.err = E_FILE_IN_USE, !.ret = -1]
                    ELSE IF r.ret = 0
                      THEN [fs EXCEPT !.disk = r.disk, !.ret = 0]
                    ELSE IF r.ret = -2
                      THEN [fs EXCEPT !.disk = r.disk, !.err = E_DIR_NOT_EMPTY,
                                      !.ret = -1]
                    ELSE [fs EXCEPT !.disk = r.disk, !.err = E_GENERAL, !.ret = -1]
               ELSE [fs EXCEPT !.err = E_NO_SUCH_FILE, !.ret = -1]
        ELSE [fs EXCEPT !.err = E_NO_SUCH_FILE, !.ret = -1]

(* a Dir_Unlink that removes the directory whatever its size: the size of  *)
(* the inode is taken as 0 before remove_inode looks at it                 *)
DirUnlinkWhateverSize(fs, path, ub) ==
  LET fp      == follow_path(fs.disk, path, ub)
      cbuf    == Disk_Read(fs.disk, InodeSector(fp.child))
      emptied == IF fp.set /\ fp.child >= 0
                   THEN Disk_Write(fs.disk, InodeSector(fp.child),
                          SetInodeWord(cbuf, InodeOffset(fp.child), 0, 0))
                   ELSE fs.disk
      r       == remove_inode(emptied, 1, fp.ret, fp.child, ub)
  IN  IF path = << SLASH >> THEN [fs EXCEPT !.err = E_ROOT_DIR, !.ret = -1]
      ELSE IF fp.ret < 0 THEN [fs EXCEPT !.err = E_NO_SUCH_DIR, !.ret = -1]
      ELSE IF r.ret < 0
        THEN [fs EXCEPT !.disk = r.disk, !.err = E_DIR_NOT_EMPTY, !.ret = -1]
      ELSE [fs EXCEPT !.disk = r.disk, !.ret = 0]

(* Dir_Unlink(path) *)
Dir_Unlink(fs, path, ub) ==
  LET fp == follow_path(fs.disk, path, ub)
      r  == remove_inode(fs.disk, 1, fp.ret, fp.child, ub)
  IN  IF path = << SLASH >> THEN [fs EXCEPT !.err = E_ROOT_DIR, !.ret = -1]
      ELSE IF fp.ret < 0 THEN [fs EXCEPT !.err = E_NO_SUCH_DIR, !.ret = -1]
      ELSE IF r.ret < 0
        THEN [fs EXCEPT !.disk = r.disk, !.err = E_DIR_NOT_EMPTY, !.ret = -1]
      ELSE [fs EXCEPT !.disk = r.disk, !.ret = 0]

(***************************************************************************)
(* File I/O.  A result carries `out`, the bytes File_Read copied to the    *)
(* caller's buffer, and `crash`: the call ran memcpy with a negative       *)
(* length, which ends the process.                                         *)
(***************************************************************************)
(* File_Open(file).  When follow_path fails it leaves child_inode          *)
(* unassigned, and File_Open reads it all the same.                        *)
File_Open(fs, file, ub) ==
  LET fd == new_file_fd(fs.of)
      fp == follow_path(fs.disk, file, ub)
      child_inode == IF fp.set THEN fp.child ELSE ub.word
      sector == InodeSector(child_inode)
      buf    == Disk_Read(fs.disk, sector)
      off    == InodeOffset(child_inode)
  IN  IF fd < 0 THEN [fs EXCEPT !.err = E_TOO_MANY_OPEN_FILES, !.ret = -1]
      ELSE IF child_inode >= 0
        THEN IF ~ValidSector(sector)
               THEN [fs EXCEPT !.err = E_GENERAL, !.ret = -1]
             ELSE IF InodeWord(buf, off, 1, ub.word) # 0
               THEN [fs EXCEPT !.err = E_GENERAL, !.ret = -1]
             ELSE [fs EXCEPT !.of = SetSlot(fs.of, fd,
                                      [inode |-> child_inode,
                                       size  |-> InodeWord(buf, off, 0, ub.word),
                                       pos   |-> 0]),
                             !.ret = fd]
        ELSE [fs EXCEPT !.err = E_NO_SUCH_FILE, !.ret = -1]

(* the content Disk_Read leaves in the buffer: a failed read leaves it as *)
(* it was                                                                  *)
ReadInto(d, s, old) == IF ValidSector(s) THEN Disk_Read(d, s) ELSE old

(* to_read of File_Read and to_write of File_Write *)
Chunk(left, current_position_in_sector) ==
  IF left > SECTOR_SIZE
    THEN SECTOR_SIZE - current_position_in_sector
    ELSE left - current_position_in_sector

(* File_Read(fd, buffer, size) *)
File_Read(fs, fd, size, ub) ==
  LET f      == Slot(fs.of, fd)
      sector == InodeSector(f.inode)
      buf    == Disk_Read(fs.disk, sector)
      off    == InodeOffset(f.inode)
      current_position_in_sector == CMod(f.pos, SECTOR_SIZE)
      current_sector == CDiv(f.pos, SECTOR_SIZE)
      data_buf == ReadInto(fs.disk, InodeWord(buf, off, 2 + current_sector, ub.word),
                           ub.sector)
      to_read  == Chunk(size, current_position_in_sector)
      pos2     == IF f.pos + to_read > f.size THEN f.size ELSE f.pos + to_read
  IN  IF ~is_file_open(fs.of, fd) THEN [fs EXCEPT !.err = E_BAD_FD, !.ret = -1]
      ELSE IF f.pos = f.size THEN [fs EXCEPT !.ret = 0]
      ELSE IF ~ValidSector(sector) THEN [fs EXCEPT !.err = E_GENERAL, !.ret = -1]
      ELSE IF ~(size > 0 /\ f.pos < f.size) THEN [fs EXCEPT !.ret = -1]
      ELSE IF to_read < 0 \/ current_position_in_sector < 0
        THEN [fs EXCEPT !.crash = TRUE]
      ELSE [fs EXCEPT !.of  = SetSlot(fs.of, fd, [f EXCEPT !.pos = pos2]),
                      !.out = Get(data_buf, current_position_in_sector, to_read),
                      !.ret = to_read]

(* the allocation loop of File_Write: data[i] for i in [i, last) *)
RECURSIVE AllocData(_, _, _, _, _)
AllocData(d, buf, off, i, last) ==
  IF i >= last THEN [disk |-> d, buf |-> buf, ok |-> TRUE]
  ELSE LET a == bitmap_first_unused(d, SECTOR_BITMAP_START_SECTOR,
                                    SECTOR_BITMAP_SECTORS, SECTOR_BITMAP_SIZE)
       IN  IF a.loc < 0 THEN [disk |-> a.disk, buf |-> buf, ok |-> FALSE]
           ELSE AllocData(a.disk, SetInodeWord(buf, off, 2 + i, a.loc),
                          off, i + 1, last)

(* the copy loop of File_Write: st is [disk, left, cpis, pos, cs, in_pos,  *)
(* crash]                                                                  *)
RECURSIVE WriteLoop(_, _, _, _, _, _)
WriteLoop(st, ibuf, off, allocated_sectors, buffer, ub) ==
  IF ~(st.left > 0 /\ st.cs < allocated_sectors) \/ st.crash THEN st
  ELSE
    LET sec      == InodeWord(ibuf, off, 2 + st.cs, ub.word)
        data_buf == ReadInto(st.disk, sec, ub.sector)
        to_write == Chunk(st.left, st.cpis)
        new_buf  == Put(data_buf, st.cpis, Get(buffer, st.in_pos, to_write))
    IN  IF to_write < 0 \/ st.cpis < 0 THEN [st EXCEPT !.crash = TRUE]
        ELSE WriteLoop([disk   |-> IF ValidSector(sec)
                                     THEN Disk_Write(st.disk, sec, new_buf)
                                     ELSE st.disk,
                        left   |-> st.left - to_write,
                        cpis   |-> 0,
                        pos    |-> st.pos + to_write,
                        cs     |-> st.cs + 1,
                        in_pos |-> st.in_pos + to_write,
                        crash  |-> FALSE],
                       ibuf, off, allocated_sectors, buffer, ub)

(* File_Write(fd, buffer, size).  The inode sector is written before      *)
(* child->size is assigned, so the size never reaches the disk.            *)
File_Write(fs, fd, buffer, size, ub) ==
  LET f      == Slot(fs.of, fd)
      sector == InodeSector(f.inode)
      buf    == Disk_Read(fs.disk, sector)
      off    == InodeOffset(f.inode)
      allocated_sectors == CDiv(f.size + SECTOR_SIZE - 1, SECTOR_SIZE)
      needed_sectors ==
        CDiv(size - (allocated_sectors * SECTOR_SIZE - f.pos) + SECTOR_SIZE - 1,
             SECTOR_SIZE)
      al == AllocData(fs.disk, buf, off, allocated_sectors,
                      allocated_sectors + needed_sectors)
      d2 == Disk_Write(al.disk, sector, al.buf)
      w  == WriteLoop([disk   |-> d2,
                       left   |-> size,
                       cpis   |-> CMod(f.pos, SECTOR_SIZE),
                       pos    |-> f.pos,
                       cs     |-> CDiv(f.pos, SECTOR_SIZE),
                       in_pos |-> 0,
                       crash  |-> FALSE],
                      al.buf, off, allocated_sectors + needed_sectors, buffer, ub)
  IN  IF ~is_file_open(fs.of, fd) THEN [fs EXCEPT !.err = E_BAD_FD, !.ret = -1]
      ELSE IF f.pos + size > MAX_SECTORS_PER_FILE * SECTOR_SIZE
        THEN [fs EXCEPT !.err = E_FILE_TOO_BIG, !.ret = -1]
      ELSE IF ~ValidSector(sector) THEN [fs EXCEPT !.err = E_GENERAL, !.ret = -1]
      ELSE IF ~al.ok
        THEN [fs EXCEPT !.disk = al.disk, !.err = E_NO_SPACE, !.ret = -1]
      ELSE IF w.crash THEN [fs EXCEPT !.crash = TRUE]
      ELSE [fs EXCEPT !.disk = w.disk,
                      !.of   = SetSlot(fs.of, fd,
                                 [f EXCEPT !.size = f.pos + size, !.pos = w.pos]),
                      !.ret  = size - w.left]

(* File_Seek(fd, offset) *)
File_Seek(fs, fd, offset) ==
  LET f == Slot(fs.of, fd)
  IN  IF ~is_file_open(fs.of, f.inode) THEN [fs EXCEPT !.err = E_BAD_FD, !.ret = -1]
      ELSE IF f.size < offset \/ f.size < 0
        THEN [fs EXCEPT !.err = E_SEEK_OUT_OF_BOUNDS, !.ret = -1]
      ELSE [fs EXCEPT !.of = SetSlot(fs.of, fd, [f EXCEPT !.pos = offset]),
                      !.ret = offset]

(* File_Close(fd), for fd < MAX_OPEN_FILES *)
File_Close(fs, fd) ==
  LET f == Slot(fs.of, fd)
  IN  IF 0 > fd \/ fd > MAX_OPEN_FILES THEN [fs EXCEPT !.err = E_BAD_FD, !.ret = -1]
      ELSE IF f.inode <= 0 THEN [fs EXCEPT !.err = E_BAD_FD, !.ret = -1]
      ELSE [fs EXCEPT !.of = SetSlot(fs.of, fd, [f EXCEPT !.inode = 0]), !.ret = 0]

(***************************************************************************)
(* Directory listing.                                                      *)
(***************************************************************************)
(* child_node % INODES_PER_SECTOR: the remainder is taken in size_t, and   *)
(* INODES_PER_SECTOR divides 2^64                                          *)
DirReadOffset(child_node) == child_node % INODES_PER_SECTOR

(* the copy loops of Dir_Read: the full sectors data[i] for i in [i, full), *)
(* then the first `left` dirents of data[full]; acc is what the caller's   *)
(* buffer holds so far                                                     *)
RECURSIVE DirReadLoop(_, _, _, _, _, _, _, _)
DirReadLoop(d, buf, off, i, full, left, acc, ub) ==
  LET sec     == InodeWord(buf, off, 2 + i, ub.word)
      sec_buf == Disk_Read(d, sec)
  IN  IF i < full
        THEN IF ~ValidSector(sec) THEN [ok |-> FALSE, out |-> acc]
             ELSE DirReadLoop(d, buf, off, i + 1, full, left,
                              acc \o Get(sec_buf, 0, DIRENTS_PER_SECTOR * SIZEOF_DIRENT),
                              ub)
      ELSE IF left > 0
        THEN IF ~ValidSector(sec) THEN [ok |-> FALSE, out |-> acc]
             ELSE [ok |-> TRUE, out |-> acc \o Get(sec_buf, 0, left * SIZEOF_DIRENT)]
      ELSE [ok |-> TRUE, out |-> acc]

(* Dir_Size(path): an inode that is not a directory gives -1 with osErrno  *)
(* as it was; a last name that is absent gives 0                           *)
Dir_Size(fs, path, ub) ==
  LET fp     == follow_path(fs.disk, path, ub)
      child_inode == IF fp.set THEN fp.child ELSE ub.word
      sector == InodeSector(child_inode)
      buf    == Disk_Read(fs.disk, sector)
      off    == InodeOffset(child_inode)
  IN  IF fp.ret < 0 THEN [fs EXCEPT !.err = E_NO_SUCH_DIR, !.ret = -1]
      ELSE IF child_inode >= 0
        THEN IF ~ValidSector(sector)
               THEN [fs EXCEPT !.err = E_GENERAL, !.ret = -1]
             ELSE IF InodeWord(buf, off, 1, ub.word) # 1
               THEN [fs EXCEPT !.ret = -1]
             ELSE [fs EXCEPT !.ret = InodeWord(buf, off, 0, ub.word) * SIZEOF_DIRENT]
      ELSE [fs EXCEPT !.ret = 0]

(* Dir_Read(path, buffer, size), for size >= 0.  The type of the inode is  *)
(* not looked at; a child_node of -1 (no such entry) is used as it is.     *)
Dir_Read(fs, path, size, ub) ==
  LET fp     == follow_path(fs.disk, path, ub)
      child_node == IF fp.set THEN fp.child ELSE ub.word
      sector == InodeSector(child_node)
      buf    == Disk_Read(fs.disk, sector)
      off    == DirReadOffset(child_node)
      csize  == InodeWord(buf, off, 0, ub.word)
      r      == DirReadLoop(fs.disk, buf, off, 0, csize \div DIRENTS_PER_SECTOR,
                            csize % DIRENTS_PER_SECTOR, << >>, ub)
  IN  IF fp.ret < 0 THEN [fs EXCEPT !.err = E_NO_SUCH_DIR, !.ret = -1]
      ELSE IF ~ValidSector(sector) THEN [fs EXCEPT !.ret = -1]
      ELSE IF csize < 0 \/ size < csize * SIZEOF_DIRENT
        THEN [fs EXCEPT !.err = E_BUFFER_TOO_SMALL, !.ret = -1]
      ELSE IF ~r.ok THEN [fs EXCEPT !.out = r.out, !.ret = -1]
      ELSE [fs EXCEPT !.out = r.out, !.ret = csize]

(***************************************************************************)
(* The state machine.                                                      *)
(***************************************************************************)
VARIABLES disk, open_files, osErrno, ret, out, crashed, call, steps

vars == << disk, open_files, osErrno, ret, out, crashed, call, steps >>

(* OS_MAGIC, 0xdeadbeef, as an int *)
OS_MAGIC == -559038737

(* the inode table FS_Boot writes: the first sector holds the root inode  *)
(* (size 0, type 1) in its first record, every other byte of the table is *)
(* zero                                                                    *)
FormatInodeTable(d) ==
  LET table == INODE_TABLE_START_SECTOR..(DATABLOCK_START_SECTOR - 1)
      root  == PutI32(PutI32(ZeroSector, 0, 0), INT_SIZE, 1)
  IN  [x \in ((DOMAIN d) \ table) \cup {INODE_TABLE_START_SECTOR} |->
         IF x = INODE_TABLE_START_SECTOR THEN root ELSE d[x]]

(* the disk FS_Boot leaves when the backing file does not exist *)
FormattedDisk ==
  LET d0 == [x \in {} |-> ZeroSector]
      d1 == Disk_Write(d0, SUPERBLOCK_START_SECTOR, PutI32(ZeroSector, 0, OS_MAGIC))
      d2 == bitmap_init(d1, INODE_BITMAP_START_SECTOR, INODE_BITMAP_SECTORS, 1)
      d3 == bitmap_init(d2, SECTOR_BITMAP_START_SECTOR, SECTOR_BITMAP_SECTORS,
                        DATABLOCK_START_SECTOR)
  IN  FormatInodeTable(d3)

(* the state after FS_Boot of a fresh image *)
Init ==
  /\ disk = FormattedDisk
  /\ open_files = [x \in {} |-> FreeSlot]
  /\ osErrno = E_NONE
  /\ ret = 0
  /\ out = << >>
  /\ crashed = FALSE
  /\ call = << >>
  /\ steps = 0

(***************************************************************************)
(* Inputs.                                                                 *)
(***************************************************************************)
(* what the code may read from memory it never wrote *)
UBDirents == {Zeros(SIZEOF_DIRENT), DirentBytes(<< 103 >>, 1)}

UB ==
  { [word |-> w, dirent |-> e, sector |-> ZeroSector] :
      w \in {-1, 0}, e \in UBDirents }

(* the same for the operations that read no dirent_t of that kind *)
UBWords == {ub \in UB : ub.dirent = Zeros(SIZEOF_DIRENT)}

P_root  == << SLASH >>
P_root2 == << SLASH, SLASH >>
P_a     == << SLASH, 97 >>
P_b     == << SLASH, 98 >>
P_c     == << SLASH, 99 >>
P_d     == << SLASH, 100 >>
P_e     == << SLASH, 101 >>
P_a_b   == << SLASH, 97, SLASH, 98 >>
P_a_c   == << SLASH, 97, SLASH, 99 >>

(* the caller's buffer of a File_Write of n bytes: byte i is 1 + (tag + i) % 3 *)
UserBuffer(tag, n) == [i \in 1..n |-> 1 + ((tag + i) % 3)]

(* the file system as the operations see it *)
FS ==
  [disk |-> disk, of |-> open_files, err |-> osErrno, ret |-> ret,
   out |-> << >>, crash |-> FALSE]

(* the call c, with the state it was made in *)
Called(c) == [c EXCEPT !.pre = [disk |-> disk, of |-> open_files, err |-> osErrno]]

NoCall ==
  [fn |-> "none", path |-> << >>, fd |-> -1, n |-> 0, buf |-> << >>,
   ret |-> 0, pre |-> << >>]

(* the state after a call that returned r; call keeps the last h calls,    *)
(* newest first                                                            *)
Commit(r, c, h) ==
  /\ ~crashed
  /\ disk' = r.disk
  /\ open_files' = r.of
  /\ osErrno' = r.err
  /\ ret' = r.ret
  /\ out' = r.out
  /\ crashed' = r.crash
  /\ call' = SubSeq(<< [Called(c) EXCEPT !.ret = r.ret] >> \o call,
                    1, Min(h, Len(call) + 1))
  /\ steps' = steps + 1

OpFileCreate(P, h) ==
  \E p \in P, ub \in UBWords :
    Commit(File_Create(FS, p, ub), [NoCall EXCEPT !.fn = "File_Create", !.path = p], h)

OpDirCreate(P, h) ==
  \E p \in P, ub \in UBWords :
    Commit(Dir_Create(FS, p, ub), [NoCall EXCEPT !.fn = "Dir_Create", !.path = p], h)

OpFileUnlink(P, h) ==
  \E p \in P, ub \in UB :
    Commit(File_Unlink(FS, p, ub), [NoCall EXCEPT !.fn = "File_Unlink", !.path = p], h)

OpDirUnlink(P, h) ==
  \E p \in P, ub \in UB :
    Commit(Dir_Unlink(FS, p, ub), [NoCall EXCEPT !.fn = "Dir_Unlink", !.path = p], h)

OpFileOpen(P, h) ==
  \E p \in P, ub \in UBWords :
    Commit(File_Open(FS, p, ub), [NoCall EXCEPT !.fn = "File_Open", !.path = p], h)

OpFileClose(F, h) ==
  \E fd \in F :
    Commit(File_Close(FS, fd), [NoCall EXCEPT !.fn = "File_Close", !.fd = fd], h)

OpFileSeek(F, O, h) ==
  \E fd \in F, off \in O :
    Commit(File_Seek(FS, fd, off),
           [NoCall EXCEPT !.fn = "File_Seek", !.fd = fd, !.n = off], h)

OpFileRead(F, N, h) ==
  \E fd \in F, n \in N, ub \in UBWords :
    Commit(File_Read(FS, fd, n, ub),
           [NoCall EXCEPT !.fn = "File_Read", !.fd = fd, !.n = n], h)

OpFileWrite(F, N, T, h) ==
  \E fd \in F, n \in N, tag \in T, ub \in UBWords :
    Commit(File_Write(FS, fd, UserBuffer(tag, n), n, ub),
           [NoCall EXCEPT !.fn = "File_Write", !.fd = fd, !.n = n,
                          !.buf = UserBuffer(tag, n)], h)

OpDirRead(P, N, h) ==
  \E p \in P, n \in N, ub \in UBWords :
    Commit(Dir_Read(FS, p, n, ub),
           [NoCall EXCEPT !.fn = "Dir_Read", !.path = p, !.n = n], h)

OpDirSize(P, h) ==
  \E p \in P, ub \in UBWords :
    Commit(Dir_Size(FS, p, ub), [NoCall EXCEPT !.fn = "Dir_Size", !.path = p], h)

(* what the local child_inode of File_Open holds when follow_path did not  *)
(* assign it: any int; -1, 0 (the root) and 1 (the first inode a create    *)
(* takes) are the cases                                                    *)
UBInodes ==
  { [word |-> w, dirent |-> Zeros(SIZEOF_DIRENT), sector |-> ZeroSector] :
      w \in {-1, 0, 1} }

(* File_Open with the unassigned child_inode drawn from UBInodes *)
OpFileOpenAny(P, h) ==
  \E p \in P, ub \in UBInodes :
    Commit(File_Open(FS, p, ub), [NoCall EXCEPT !.fn = "File_Open", !.path = p], h)

(***************************************************************************)
(* Reading the on-disk structures of a disk image d.                       *)
(***************************************************************************)
(* bit idx of the bitmap that starts at sector start: bit k of its sector  *)
(* s is index s * SECTOR_SIZE * 8 + k                                      *)
BitmapBit(d, start, idx) ==
  SectorBit(Disk_Read(d, start + (idx \div (SECTOR_SIZE * 8))),
            idx % (SECTOR_SIZE * 8))

InodeAllocated(d, i) ==
  i \in 0..(MAX_FILES - 1) /\ BitmapBit(d, INODE_BITMAP_START_SECTOR, i)

SectorAllocated(d, s) ==
  s \in 0..(TOTAL_SECTORS - 1) /\ BitmapBit(d, SECTOR_BITMAP_START_SECTOR, s)

(* the inode_t of inode i *)
InodeRecord(d, i) ==
  LET buf == Disk_Read(d, InodeSector(i))
      at  == InodeOffset(i) * SIZEOF_INODE
  IN  [size |-> I32(buf, at),
       type |-> I32(buf, at + INT_SIZE),
       data |-> [k \in 0..(MAX_SECTORS_PER_FILE - 1) |->
                   I32(buf, at + INT_SIZE * (2 + k))]]

(* the sectors of both bitmaps *)
Bitmaps(d) ==
  [s \in INODE_BITMAP_START_SECTOR..(INODE_TABLE_START_SECTOR - 1) |->
     Disk_Read(d, s)]

LiveInodes(d) == {i \in 0..(MAX_FILES - 1) : InodeAllocated(d, i)}

LiveDirectories(d) == {i \in LiveInodes(d) : InodeRecord(d, i).type = 1}

(* the sectors recorded in data[] of inode i: its entries that are not 0 *)
Recorded(d, i) ==
  {InodeRecord(d, i).data[k] : k \in 0..(MAX_SECTORS_PER_FILE - 1)} \ {0}

(* the slots of data[] of live inodes that record a sector *)
DataSlots(d) ==
  {e \in LiveInodes(d) \X (0..(MAX_SECTORS_PER_FILE - 1)) :
     InodeRecord(d, e[1]).data[e[2]] # 0}

(* the data sectors whose bit is set and that no live inode records *)
Unreferenced(d) ==
  {s \in DATABLOCK_START_SECTOR..(TOTAL_SECTORS - 1) :
     SectorAllocated(d, s) /\ \A i \in LiveInodes(d) : s \notin Recorded(d, i)}

(* the number of dirent slots [0, size) of directory dir *)
LiveSlots(d, dir) ==
  LET n == InodeRecord(d, dir).size
  IN  IF n < 0 THEN 0
      ELSE Min(n, MAX_SECTORS_PER_FILE * DIRENTS_PER_SECTOR)

(* the dirent in slot k of directory dir, slots counted across data[] in order *)
DirentAt(d, dir, k) ==
  LET buf == Disk_Read(d, InodeRecord(d, dir).data[k \div DIRENTS_PER_SECTOR])
  IN  [name  |-> DirentName(buf, k % DIRENTS_PER_SECTOR),
       inode |-> DirentInode(buf, k % DIRENTS_PER_SECTOR)]

(* the dirents in the slots [0, size) of directory dir *)
Entries(d, dir) == {DirentAt(d, dir, k) : k \in 0..(LiveSlots(d, dir) - 1)}

(* the live directory entries of the whole namespace, as <<directory, slot>> *)
LiveDirents(d) ==
  UNION {{<< dir, k >> : k \in 0..(LiveSlots(d, dir) - 1)} :
           dir \in LiveDirectories(d)}

(* the slots [0, size) of dir hold one named, live, non-root child each *)
Dense(d, dir) ==
  /\ InodeRecord(d, dir).size = LiveSlots(d, dir)
  /\ \A k \in 0..(LiveSlots(d, dir) - 1) :
       /\ DirentAt(d, dir, k).name # << >>
       /\ ~illegal_filename(DirentAt(d, dir, k).name)
       /\ DirentAt(d, dir, k).inode # 0
       /\ InodeAllocated(d, DirentAt(d, dir, k).inode)
  /\ \A k, l \in 0..(LiveSlots(d, dir) - 1) :
       k # l => /\ DirentAt(d, dir, k).name # DirentAt(d, dir, l).name
                /\ DirentAt(d, dir, k).inode # DirentAt(d, dir, l).inode

(* the last call made, when one was made *)
Made(fns) == Len(call) >= 1 /\ call[1].fn \in fns

(***************************************************************************)
(* Specification of the namespace operations.                              *)
(***************************************************************************)
NSFiles == {P_a, P_b, P_c}
NSDirs  == {P_root, P_root2, P_d}

MaxStepsNS == 4

NextNS ==
  \/ steps < MaxStepsNS /\ OpFileCreate(NSFiles, 2)
  \/ steps < MaxStepsNS /\ OpDirCreate({P_d}, 2)
  \/ steps < MaxStepsNS /\ OpFileUnlink(NSFiles, 2)
  \/ steps < MaxStepsNS /\ OpDirUnlink(NSDirs, 2)

SpecNS == Init /\ [][NextNS]_vars

(***************************************************************************)
(* Properties of the namespace operations.                                 *)
(***************************************************************************)
Unlinks == {"File_Unlink", "Dir_Unlink"}

(* C2: after a successful File_Unlink or Dir_Unlink of path p, p no longer *)
(* resolves: File_Open(p) fails with E_NO_SUCH_FILE and File_Create(p)     *)
(* succeeds again                                                          *)
C2_UnlinkedPathIsGone ==
  (Made(Unlinks) /\ call[1].ret = 0) =>
    \A ub \in UB :
      /\ follow_path(disk, call[1].path, ub).child = -1
      /\ File_Open(FS, call[1].path, ub).ret = -1
      /\ File_Open(FS, call[1].path, ub).err = E_NO_SUCH_FILE
      /\ File_Create(FS, call[1].path, ub).ret = 0

(* C3: File_Create(d/n) of a name not present in d followed by             *)
(* File_Unlink(d/n) leaves the inode bitmap, the sector bitmap and d.size  *)
(* as they were before the create                                          *)
C3_CreateUnlinkRestores ==
  (/\ Len(call) >= 2
   /\ call[2].fn = "File_Create" /\ call[2].ret = 0
   /\ call[1].fn = "File_Unlink" /\ call[1].ret = 0
   /\ call[1].path = call[2].path) =>
    \A ub \in UB :
      LET before == call[2].pre.disk
          dir    == follow_path(before, call[2].path, ub).ret
      IN  /\ Bitmaps(disk) = Bitmaps(before)
          /\ InodeRecord(disk, dir).size = InodeRecord(before, dir).size

(* C5: no successful create or unlink leaves a data sector whose bit is    *)
(* set and that no live inode records in its data[], unless it was such a  *)
(* sector before the call                                                  *)
C5_NoSectorLeaked ==
  (Made({"File_Create", "Dir_Create", "File_Unlink", "Dir_Unlink"})
     /\ call[1].ret = 0) =>
    Unreferenced(disk) \subseteq Unreferenced(call[1].pre.disk)

(* C8: inode 0 is a directory record and bit 0 of the inode bitmap is set  *)
(* after any sequence of calls, whatever spelling of the root they pass    *)
C8_RootStaysADirectory ==
  InodeRecord(disk, 0).type = 1 /\ InodeAllocated(disk, 0)

(* C9: a successful unlink in a directory whose slots [0, size) hold its   *)
(* live children leaves the slots [0, size - 1) holding the other children *)
C9_DirentsStayDense ==
  (Made(Unlinks) /\ call[1].ret = 0) =>
    \A ub \in UB :
      LET before == call[1].pre.disk
          fp     == follow_path(before, call[1].path, ub)
          gone   == {e \in Entries(before, fp.ret) : e.name = fp.fname}
      IN  Dense(before, fp.ret) =>
            /\ Dense(disk, fp.ret)
            /\ InodeRecord(disk, fp.ret).size = InodeRecord(before, fp.ret).size - 1
            /\ Entries(disk, fp.ret) = Entries(before, fp.ret) \ gone

(* C10: every inode but the root whose bit is set is referenced by exactly *)
(* one live directory entry, and every live directory entry references an  *)
(* inode whose bit is set                                                  *)
C10_OneEntryPerInode ==
  /\ \A i \in LiveInodes(disk) \ {0} :
       Cardinality({e \in LiveDirents(disk) :
                      DirentAt(disk, e[1], e[2]).inode = i}) = 1
  /\ \A e \in LiveDirents(disk) :
       InodeAllocated(disk, DirentAt(disk, e[1], e[2]).inode)

(***************************************************************************)
(* Specification of file I/O on one file.                                  *)
(***************************************************************************)
IOFds == {0}
IOSizes == {1, SECTOR_SIZE + 1}
IOOffsets == {0, 1}

MaxStepsIO == 5

NextIO ==
  \/ steps < MaxStepsIO /\ OpFileCreate({P_a}, 3)
  \/ steps < MaxStepsIO /\ OpFileOpen({P_a}, 3)
  \/ steps < MaxStepsIO /\ OpFileWrite(IOFds, IOSizes, {0}, 3)
  \/ steps < MaxStepsIO /\ OpFileSeek(IOFds, IOOffsets, 3)
  \/ steps < MaxStepsIO /\ OpFileRead(IOFds, IOSizes, 3)
  \/ steps < MaxStepsIO /\ OpFileClose(IOFds, 3)

SpecIO == Init /\ [][NextIO]_vars

(***************************************************************************)
(* Properties of file I/O.                                                 *)
(***************************************************************************)
(* the descriptor fd holds a file in the open-file table of *)
Holds(of, fd) == Slot(of, fd).inode > 0

(* the last call was a File_Write of all its n bytes through an open       *)
(* descriptor, at a position in [0, size]                                  *)
Wrote(c) ==
  /\ c.fn = "File_Write"
  /\ Holds(c.pre.of, c.fd)
  /\ Slot(c.pre.of, c.fd).pos >= 0
  /\ Slot(c.pre.of, c.fd).pos <= Slot(c.pre.of, c.fd).size
  /\ Slot(c.pre.of, c.fd).pos + c.n <= MAX_SECTORS_PER_FILE * SECTOR_SIZE
  /\ c.ret = c.n

(* C1: File_Write of B at pos, File_Seek back to pos, then File_Read of    *)
(* |B| bytes returns |B| and delivers exactly B                            *)
C1_WriteSeekReadRoundTrip ==
  (/\ Len(call) >= 3
   /\ Wrote(call[3])
   /\ call[2].fn = "File_Seek" /\ call[2].fd = call[3].fd
   /\ call[2].n = Slot(call[3].pre.of, call[3].fd).pos
   /\ call[2].ret = call[2].n
   /\ call[1].fn = "File_Read" /\ call[1].fd = call[3].fd
   /\ call[1].n = call[3].n) =>
    /\ ~crashed
    /\ ret = call[3].n
    /\ out = call[3].buf

(* C4: after a successful File_Write of n bytes at pos, the inode record   *)
(* on disk and the descriptor both carry size = pos + n, and a descriptor  *)
(* opened afterwards gets that size                                        *)
C4_WrittenSizeReachesDisk ==
  (Len(call) >= 1 /\ Wrote(call[1])) =>
    LET f == Slot(call[1].pre.of, call[1].fd)
    IN  /\ Slot(open_files, call[1].fd).size = f.pos + call[1].n
        /\ InodeRecord(disk, f.inode).size = f.pos + call[1].n

(* C6: each sector recorded in data[] of a live inode has its bit set in   *)
(* the sector bitmap, and no sector is recorded in two slots of data[],    *)
(* of one inode or of two                                                  *)
C6_RecordedSectorsAreAllocated ==
  /\ \A e \in DataSlots(disk) :
       SectorAllocated(disk, InodeRecord(disk, e[1]).data[e[2]])
  /\ \A e, g \in DataSlots(disk) :
       e # g => InodeRecord(disk, e[1]).data[e[2]]
                  # InodeRecord(disk, g[1]).data[g[2]]

(***************************************************************************)
(* Specification of unlinking files that are in use.                       *)
(***************************************************************************)
UseFiles == {P_a, P_b}
UseFds == {0, 1}

MaxStepsUse == 5

NextUse ==
  \/ steps < MaxStepsUse /\ OpFileCreate(UseFiles, 1)
  \/ steps < MaxStepsUse /\ OpFileOpen(UseFiles, 1)
  \/ steps < MaxStepsUse /\ OpFileWrite({0}, {SECTOR_SIZE + 1}, {0}, 1)
  \/ steps < MaxStepsUse /\ OpFileClose(UseFds, 1)
  \/ steps < MaxStepsUse /\ OpFileUnlink(UseFiles, 1)

SpecUse == Init /\ [][NextUse]_vars

(* the path of the call c named, when the call was made, a file whose      *)
(* inode some slot of the open-file table held                             *)
HeldOpen(c) ==
  \A ub \in UB :
    LET fp == follow_path(c.pre.disk, c.path, ub)
    IN  /\ fp.ret >= 0
        /\ fp.child > 0
        /\ InodeRecord(c.pre.disk, fp.child).type = 0
        /\ \E fd \in DOMAIN c.pre.of : c.pre.of[fd].inode = fp.child

(* C7: File_Unlink of a file whose inode an open-file slot holds fails     *)
(* with E_FILE_IN_USE and leaves the disk (inode, data sectors, bitmaps,   *)
(* parent directory) and the open-file table as they were                  *)
C7_UnlinkOfOpenFileChangesNothing ==
  (Made({"File_Unlink"}) /\ HeldOpen(call[1])) =>
    /\ ret = -1
    /\ osErrno = E_FILE_IN_USE
    /\ disk = call[1].pre.disk
    /\ open_files = call[1].pre.of

(* a File_Unlink was refused for a file that is open and has data sectors *)
C7_Witness ==
  /\ Made({"File_Unlink"})
  /\ HeldOpen(call[1])
  /\ osErrno = E_FILE_IN_USE
  /\ \E fd \in DOMAIN open_files :
       /\ open_files[fd].inode > 0
       /\ Recorded(disk, open_files[fd].inode) # {}

(***************************************************************************)
(* Specification of listing a directory.  call keeps every call made since *)
(* FS_Boot.                                                                *)
(***************************************************************************)
DirFiles == {P_a, P_b, P_c}
DirGone  == {P_a, P_b}

(* the capacity of the caller's buffer: room for every dirent a directory  *)
(* can hold                                                                *)
DirCapacity == MAX_SECTORS_PER_FILE * DIRENTS_PER_SECTOR * SIZEOF_DIRENT

MaxStepsDir == 5

NextDir ==
  \/ steps < MaxStepsDir /\ OpFileCreate(DirFiles, MaxStepsDir)
  \/ steps < MaxStepsDir /\ OpFileUnlink(DirGone, MaxStepsDir)
  \/ steps < MaxStepsDir /\ OpDirRead({P_root}, {DirCapacity}, MaxStepsDir)

SpecDir == Init /\ [][NextDir]_vars

(* the names in the root that the calls of s (newest first) created and    *)
(* did not unlink afterwards                                               *)
RECURSIVE LiveNames(_)
LiveNames(s) ==
  IF s = << >> THEN {}
  ELSE LET c    == Head(s)
           rest == LiveNames(Tail(s))
       IN  IF c.fn = "File_Create" /\ c.ret = 0 THEN rest \cup {Tail(c.path)}
           ELSE IF c.fn = "File_Unlink" /\ c.ret = 0 THEN rest \ {Tail(c.path)}
           ELSE rest

(* C11: Dir_Read of the root with a buffer large enough returns the size   *)
(* of the root and copies one dirent for every name created in the root    *)
(* and not unlinked since, and nothing else                                *)
C11_DirReadListsLiveNames ==
  (/\ Made({"Dir_Read"})
   /\ Len(call) = steps
   /\ call[1].n >= InodeRecord(disk, 0).size * SIZEOF_DIRENT) =>
    /\ ret = InodeRecord(disk, 0).size
    /\ ret = Cardinality(LiveNames(Tail(call)))
    /\ Len(out) = ret * SIZEOF_DIRENT
    /\ {DirentName(out, k) : k \in 0..(ret - 1)} = LiveNames(Tail(call))

(***************************************************************************)
(* Properties of File_Write, File_Read and the file inodes, checked under  *)
(* SpecIO.                                                                 *)
(***************************************************************************)
(* the call c went through an open descriptor whose position was in        *)
(* [0, size]                                                               *)
InFile(c) ==
  /\ Holds(c.pre.of, c.fd)
  /\ Slot(c.pre.of, c.fd).pos >= 0
  /\ Slot(c.pre.of, c.fd).pos <= Slot(c.pre.of, c.fd).size

(* C12: a File_Write of n bytes that does not fail, at a position pos in   *)
(* [0, size] with pos + n within the largest file size, returns n and      *)
(* leaves the descriptor at pos + n                                        *)
C12_WriteAdvancesByN ==
  (/\ Made({"File_Write"})
   /\ InFile(call[1])
   /\ Slot(call[1].pre.of, call[1].fd).pos + call[1].n
        <= MAX_SECTORS_PER_FILE * SECTOR_SIZE
   /\ ~crashed
   /\ ret # -1) =>
    /\ ret = call[1].n
    /\ Slot(open_files, call[1].fd).pos
         = Slot(call[1].pre.of, call[1].fd).pos + call[1].n

(* byte k of the file of inode i, as data[] and the data sectors hold it *)
FileByte(d, i, k) ==
  Disk_Read(d, InodeRecord(d, i).data[k \div SECTOR_SIZE])[(k % SECTOR_SIZE) + 1]

(* C13: File_Read of n bytes through an open descriptor at pos returns     *)
(* r = min(n, size - pos), delivers the r bytes of the file from pos on    *)
(* and leaves the descriptor at pos + r                                    *)
C13_ReadDeliversMin ==
  (Made({"File_Read"}) /\ InFile(call[1])) =>
    LET f == Slot(call[1].pre.of, call[1].fd)
        r == Min(call[1].n, f.size - f.pos)
    IN  /\ ~crashed
        /\ ret = r
        /\ out = [k \in 1..r |-> FileByte(call[1].pre.disk, f.inode, f.pos + k - 1)]
        /\ Slot(open_files, call[1].fd).pos = f.pos + r

(* C14: each live file inode has a size in [0, MAX_SECTORS_PER_FILE *      *)
(* SECTOR_SIZE] and its data[] is non-zero exactly in the first            *)
(* ceil(size / SECTOR_SIZE) entries                                        *)
C14_FileInodeShape ==
  \A i \in LiveInodes(disk) :
    InodeRecord(disk, i).type = 0 =>
      /\ InodeRecord(disk, i).size >= 0
      /\ InodeRecord(disk, i).size <= MAX_SECTORS_PER_FILE * SECTOR_SIZE
      /\ \A k \in 0..(MAX_SECTORS_PER_FILE - 1) :
           (InodeRecord(disk, i).data[k] # 0)
             <=> (k * SECTOR_SIZE < InodeRecord(disk, i).size)

(***************************************************************************)
(* Specification of moving in a file: one file, one descriptor, offsets on *)
(* both sides of [0, size].                                                *)
(***************************************************************************)
PosOffsets == {-1, 0, 1, 2, 3}

MaxStepsPos == 5

NextPos ==
  \/ steps < MaxStepsPos /\ OpFileCreate({P_a}, 1)
  \/ steps < MaxStepsPos /\ OpFileOpen({P_a}, 1)
  \/ steps < MaxStepsPos /\ OpFileWrite({0}, {2}, {0}, 1)
  \/ steps < MaxStepsPos /\ OpFileSeek({0}, PosOffsets, 1)
  \/ steps < MaxStepsPos /\ OpFileRead({0}, {1}, 1)
  \/ steps < MaxStepsPos /\ OpFileClose({0}, 1)

SpecPos == Init /\ [][NextPos]_vars

(* C15: File_Seek(fd, off) through an open descriptor of cached size s     *)
(* sets pos = off and returns off when 0 <= off <= s, and otherwise fails  *)
(* with E_SEEK_OUT_OF_BOUNDS and leaves pos as it was                      *)
C15_SeekWithinBounds ==
  (Made({"File_Seek"}) /\ Holds(call[1].pre.of, call[1].fd)) =>
    LET f   == Slot(call[1].pre.of, call[1].fd)
        off == call[1].n
    IN  IF 0 <= off /\ off <= f.size
          THEN /\ ret = off
               /\ Slot(open_files, call[1].fd).pos = off
          ELSE /\ ret = -1
               /\ osErrno = E_SEEK_OUT_OF_BOUNDS
               /\ Slot(open_files, call[1].fd).pos = f.pos

(* C16: each open slot of the open-file table has 0 <= pos <= size *)
C16_PositionWithinFile ==
  \A fd \in DOMAIN open_files :
    Holds(open_files, fd) =>
      /\ 0 <= open_files[fd].pos
      /\ open_files[fd].pos <= open_files[fd].size

(***************************************************************************)
(* Properties of the open-file table, checked under SpecUse.               *)
(***************************************************************************)
(* C17: the inode each open slot holds is a live regular file: its bit in  *)
(* the inode bitmap is set and its record has type 0 (so File_Open did not *)
(* succeed on the path of an unlinked file)                                *)
C17_OpenSlotsHoldLiveFiles ==
  \A fd \in DOMAIN open_files :
    Holds(open_files, fd) =>
      /\ InodeAllocated(disk, open_files[fd].inode)
      /\ InodeRecord(disk, open_files[fd].inode).type = 0

(***************************************************************************)
(* Specification of writing past the largest file size: two files, two     *)
(* descriptors, writes that fit and writes that do not.                    *)
(***************************************************************************)
BigFiles == {P_a, P_b}
BigFds   == {0, 1}
BigSizes == {SECTOR_SIZE + 1, MAX_SECTORS_PER_FILE * SECTOR_SIZE + 1}

MaxStepsBig == 5

NextBig ==
  \/ steps < MaxStepsBig /\ OpFileCreate(BigFiles, 1)
  \/ steps < MaxStepsBig /\ OpFileOpen(BigFiles, 1)
  \/ steps < MaxStepsBig /\ OpFileWrite(BigFds, BigSizes, {0}, 1)

SpecBig == Init /\ [][NextBig]_vars

(* C18: File_Write of n bytes through an open descriptor at pos, with      *)
(* pos + n above MAX_SECTORS_PER_FILE * SECTOR_SIZE, fails with            *)
(* E_FILE_TOO_BIG and leaves the disk (inode, data[], bitmaps) and the     *)
(* open-file table (size, pos) as they were                                *)
C18_TooBigWriteChangesNothing ==
  (/\ Made({"File_Write"})
   /\ Holds(call[1].pre.of, call[1].fd)
   /\ Slot(call[1].pre.of, call[1].fd).pos + call[1].n
        > MAX_SECTORS_PER_FILE * SECTOR_SIZE) =>
    /\ ret = -1
    /\ osErrno = E_FILE_TOO_BIG
    /\ disk = call[1].pre.disk
    /\ open_files = call[1].pre.of

(***************************************************************************)
(* Specification of File_Open.  A run of File_Open calls on one path that  *)
(* leaves one slot of the open-file table free is taken as one step.       *)
(***************************************************************************)
(* the calls File_Open(p) made in a row on a table that has no open slot,  *)
(* until one slot is left: each fills the next slot with the record that   *)
(* the first one stores in slot 0, and the last one returns the slot it    *)
(* fills                                                                   *)
OpFileOpenRun(P, h) ==
  \E p \in P, ub \in UBWords :
    LET r == File_Open(FS, p, ub)
    IN  /\ \A i \in DOMAIN open_files : open_files[i].inode <= 0
        /\ r.ret = 0
        /\ Commit([r EXCEPT !.of  = [x \in 0..(MAX_OPEN_FILES - 2) |-> r.of[0]],
                            !.ret = MAX_OPEN_FILES - 2],
                  [NoCall EXCEPT !.fn = "File_Open run", !.path = p], h)

OpenFiles == {P_a, P_b}
OpenFds   == {0, MAX_OPEN_FILES - 1}

MaxStepsOpen == 4

NextOpen ==
  \/ steps < MaxStepsOpen /\ OpFileCreate(OpenFiles, 1)
  \/ steps < MaxStepsOpen /\ OpFileOpen(OpenFiles, 1)
  \/ steps < MaxStepsOpen /\ OpFileOpenRun({P_a}, 1)
  \/ steps < MaxStepsOpen /\ OpFileClose(OpenFds, 1)
  \/ steps < MaxStepsOpen /\ OpFileUnlink({P_b}, 1)

SpecOpen == Init /\ [][NextOpen]_vars

(* the names of a path: its tokens that are not empty *)
PathNames(path) == SelectSeq(Tokens(Tail(path)), LAMBDA t : t # << >>)

(* the inode the names lead to from directory dir, each name looked up in  *)
(* the slots [0, size) of a directory; -1 when a name is absent or is      *)
(* looked up in an inode that is not a directory                           *)
RECURSIVE Lookup(_, _, _)
Lookup(d, dir, names) ==
  IF names = << >> THEN dir
  ELSE LET hits == {e \in Entries(d, dir) : e.name = Head(names)}
       IN  IF InodeRecord(d, dir).type # 1 \/ hits = {} THEN -1
           ELSE Lookup(d, (CHOOSE e \in hits : TRUE).inode, Tail(names))

(* the inode the path names in the image d, -1 when it names none *)
Named(d, path) == Lookup(d, 0, PathNames(path))

(* the free slots of the open-file table of *)
FreeSlots(of) == {i \in 0..(MAX_OPEN_FILES - 1) : Slot(of, i).inode = 0}

(* C19: File_Open of a path that names a regular file succeeds when a slot *)
(* is free: it returns the smallest free slot, sets it to the file's       *)
(* inode, the size of the inode on disk and pos 0, and leaves every other  *)
(* slot as it was; it fails with E_TOO_MANY_OPEN_FILES only when no slot   *)
(* is free                                                                 *)
C19_OpenTakesSmallestFreeSlot ==
  Made({"File_Open"}) =>
    LET before == call[1].pre
        i      == Named(before.disk, call[1].path)
        free   == FreeSlots(before.of)
    IN  /\ (/\ i > 0
            /\ InodeAllocated(before.disk, i)
            /\ InodeRecord(before.disk, i).type = 0
            /\ free # {}) =>
              /\ ret \in free
              /\ \A x \in free : ret <= x
              /\ open_files = SetSlot(before.of, ret,
                                [inode |-> i,
                                 size  |-> InodeRecord(before.disk, i).size,
                                 pos   |-> 0])
              /\ disk = before.disk
        /\ (ret = -1 /\ osErrno = E_TOO_MANY_OPEN_FILES) => free = {}

(* File_Open took the smallest free slot while a slot above it was free    *)
(* and a slot above it was open                                            *)
C19_Witness ==
  /\ Made({"File_Open"})
  /\ ret >= 0
  /\ Holds(open_files, ret)
  /\ Cardinality(FreeSlots(call[1].pre.of)) >= 2
  /\ \E x \in DOMAIN open_files : x > ret /\ Holds(open_files, x)

(* File_Open was refused because every slot was open *)
C19_WitnessFull ==
  /\ Made({"File_Open"})
  /\ ret = -1
  /\ osErrno = E_TOO_MANY_OPEN_FILES
  /\ FreeSlots(call[1].pre.of) = {}

(***************************************************************************)
(* Specification of File_Open of paths that name no file: absent names,    *)
(* names under a name that is absent or is a file, and a directory.        *)
(***************************************************************************)
PathPaths == {P_a, P_d, P_e, P_a_b}

MaxStepsPath == 4

NextPath ==
  \/ steps < MaxStepsPath /\ OpFileCreate({P_a}, 1)
  \/ steps < MaxStepsPath /\ OpDirCreate({P_d}, 1)
  \/ steps < MaxStepsPath /\ OpFileOpen(PathPaths, 1)
  \/ steps < MaxStepsPath /\ OpFileClose({0}, 1)

SpecPath == Init /\ [][NextPath]_vars

(* C20: File_Open of a path that names no entry fails with E_NO_SUCH_FILE  *)
(* and leaves the open-file table as it was; File_Open of a directory      *)
(* fails with E_GENERAL                                                    *)
C20_OpenOfAbsentPathFails ==
  Made({"File_Open"}) =>
    LET before == call[1].pre
        i      == Named(before.disk, call[1].path)
    IN  /\ i = -1 =>
             /\ ret = -1
             /\ osErrno = E_NO_SUCH_FILE
             /\ open_files = before.of
        /\ (i >= 0 /\ InodeAllocated(before.disk, i)
              /\ InodeRecord(before.disk, i).type = 1) =>
             /\ ret = -1
             /\ osErrno = E_GENERAL


(***************************************************************************)
(* Specification of directory removal: File_Create of /a, Dir_Create of   *)
(* /d and /d/a, Dir_Unlink of directories that exist, that are absent and  *)
(* that lie under a missing or a regular-file parent.                      *)
(***************************************************************************)
P_d_a == << SLASH, 100, SLASH, 97 >>

RmDirs    == {P_d, P_d_a}
RmUnlinks == {P_d, P_e, P_d_a, P_a_b}

MaxStepsRm == 4

NextRm ==
  \/ steps < MaxStepsRm /\ OpFileCreate({P_a}, 1)
  \/ steps < MaxStepsRm /\ OpDirCreate(RmDirs, 1)
  \/ steps < MaxStepsRm /\ OpDirUnlink(RmUnlinks, 1)

SpecRm == Init /\ [][NextRm]_vars

(* C21: a Dir_Unlink of a path that names nothing in the image (its last   *)
(* name is absent from an existing parent directory, or a name before the  *)
(* last leads nowhere) returns -1 with osErrno E_NO_SUCH_DIR and leaves    *)
(* the disk as it was                                                      *)
C21_UnlinkOfAbsentDirFails ==
  (Made({"Dir_Unlink"}) /\ Named(call[1].pre.disk, call[1].path) = -1) =>
    /\ ret = -1
    /\ osErrno = E_NO_SUCH_DIR
    /\ disk = call[1].pre.disk

(* C22: a Dir_Unlink of a path that names a directory whose size is not 0  *)
(* returns -1 with osErrno E_DIR_NOT_EMPTY and leaves the whole disk (the  *)
(* inode of the directory, its entries, the entries and size of its        *)
(* parent, both bitmaps) as it was                                         *)
C22_UnlinkOfNonEmptyDirFails ==
  Made({"Dir_Unlink"}) =>
    LET before == call[1].pre
        i      == Named(before.disk, call[1].path)
    IN  (/\ i > 0
         /\ InodeAllocated(before.disk, i)
         /\ InodeRecord(before.disk, i).type = 1
         /\ InodeRecord(before.disk, i).size > 0) =>
          /\ ret = -1
          /\ osErrno = E_DIR_NOT_EMPTY
          /\ disk = before.disk
          /\ Bitmaps(disk) = Bitmaps(before.disk)
          /\ InodeRecord(disk, i) = InodeRecord(before.disk, i)
          /\ Entries(disk, i) = Entries(before.disk, i)
          /\ Entries(disk, 0) = Entries(before.disk, 0)
          /\ open_files = before.of

(* a Dir_Unlink of /d was refused while /d held the entry a *)
C22_Witness ==
  /\ Made({"Dir_Unlink"})
  /\ call[1].path = P_d
  /\ Named(call[1].pre.disk, P_d_a) > 0
  /\ ret = -1
  /\ osErrno = E_DIR_NOT_EMPTY


(***************************************************************************)
(* Specification of names in one directory: File_Create of /a, /b, /c,    *)
(* Dir_Create of /a, File_Unlink of /a and /b.                             *)
(***************************************************************************)
MaxStepsDup == 6

NextDup ==
  \/ steps < MaxStepsDup /\ OpFileCreate(DirFiles, 1)
  \/ steps < MaxStepsDup /\ OpDirCreate({P_a}, 1)
  \/ steps < MaxStepsDup /\ OpFileUnlink(DirGone, 1)

SpecDup == Init /\ [][NextDup]_vars

(* the last name of a path *)
LastName(path) == PathNames(path)[Len(PathNames(path))]

(* the inode of the directory the last name of the path is looked up in *)
ParentOf(d, path) ==
  Lookup(d, 0, SubSeq(PathNames(path), 1, Len(PathNames(path)) - 1))

(* no two slots among [0, size) of directory dir hold the same name *)
NamesUnique(d, dir) ==
  \A k, l \in 0..(LiveSlots(d, dir) - 1) :
    k # l => DirentAt(d, dir, k).name # DirentAt(d, dir, l).name

(* C23: in every live directory the entries in the slots [0, size) have    *)
(* pairwise different names; and a File_Create or Dir_Create of a path     *)
(* whose last name is the name of an entry of its parent directory, file   *)
(* or directory, returns -1 with osErrno E_CREATE and leaves the disk as   *)
(* it was                                                                  *)
C23_NamesUniqueInDirectory ==
  /\ \A dir \in LiveDirectories(disk) : NamesUnique(disk, dir)
  /\ Made({"File_Create", "Dir_Create"}) =>
       LET before == call[1].pre
           parent == ParentOf(before.disk, call[1].path)
       IN  (/\ parent >= 0
            /\ \E e \in Entries(before.disk, parent) :
                 e.name = LastName(call[1].path)) =>
             /\ ret = -1
             /\ osErrno = E_CREATE
             /\ disk = before.disk


(***************************************************************************)
(* Specification of illegal names: the creates, File_Open, Dir_Size and    *)
(* Dir_Read on paths with a character that is not legal, with a name of    *)
(* MAX_NAME characters, and with such a name before or after a legal one.  *)
(***************************************************************************)
P_bang   == << SLASH, 33 >>
P_long   == << SLASH >> \o [i \in 1..MAX_NAME |-> 97]
P_a_bang == << SLASH, 97, SLASH, 33 >>
P_bang_a == << SLASH, 33, SLASH, 97 >>

BadPaths == {P_bang, P_long, P_a_bang, P_bang_a}

MaxStepsName == 2

NextName ==
  \/ steps < MaxStepsName /\ OpFileCreate({P_a} \cup BadPaths, 1)
  \/ steps < MaxStepsName /\ OpDirCreate(BadPaths, 1)
  \/ steps < MaxStepsName /\ OpFileOpenAny({P_a} \cup BadPaths, 1)
  \/ steps < MaxStepsName /\ OpDirSize(BadPaths, 1)
  \/ steps < MaxStepsName /\ OpDirRead(BadPaths, {DirCapacity}, 1)

SpecName == Init /\ [][NextName]_vars

(* a name of the path has a character outside [A-Za-z0-9._-] or has        *)
(* MAX_NAME characters or more                                             *)
HasIllegalName(path) ==
  \E k \in 1..Len(PathNames(path)) :
    LET name == PathNames(path)[k]
    IN  \/ Len(name) >= MAX_NAME
        \/ \E i \in 1..Len(name) :
             ~(\/ name[i] \in 65..90
               \/ name[i] \in 97..122
               \/ name[i] \in 48..57
               \/ name[i] \in {45, 46, 95})

(* C24: a File_Create, Dir_Create, File_Open, File_Unlink, Dir_Unlink,     *)
(* Dir_Size or Dir_Read of a path with an illegal name returns -1 and      *)
(* leaves the disk and the open-file table as they were                    *)
C24_IllegalNameFails ==
  (/\ Made({"File_Create", "Dir_Create", "File_Open", "File_Unlink",
            "Dir_Unlink", "Dir_Size", "Dir_Read"})
   /\ HasIllegalName(call[1].path)) =>
    /\ ret = -1
    /\ disk = call[1].pre.disk
    /\ open_files = call[1].pre.of


(***************************************************************************)
(* Specification of the two bitmaps: from the formatted image, the calls   *)
(* of bitmap_first_unused and bitmap_reset with the arguments the code     *)
(* passes for the inode bitmap and for the sector bitmap.                  *)
(***************************************************************************)
(* the arguments of the calls on the inode bitmap (add_inode, remove_inode) *)
(* and its number of bits                                                   *)
InodeBitmap ==
  [start    |-> INODE_BITMAP_START_SECTOR,
   num      |-> INODE_BITMAP_SECTORS,
   nbits    |-> INODE_BITMAP_SIZE,
   capacity |-> MAX_FILES]

(* the same for the sector bitmap (add_inode, File_Write, remove_inode) *)
SectorBitmap ==
  [start    |-> SECTOR_BITMAP_START_SECTOR,
   num      |-> SECTOR_BITMAP_SECTORS,
   nbits    |-> SECTOR_BITMAP_SIZE,
   capacity |-> TOTAL_SECTORS]

NoBitmapCall ==
  [fn |-> "none", bitmap |-> InodeBitmap, ibit |-> -1, ret |-> 0, pre |-> << >>]

(* the state after a call on a bitmap that left the disk r.disk and        *)
(* returned v                                                              *)
BitmapStep(d, v, c) ==
  /\ ~crashed
  /\ disk' = d
  /\ ret' = v
  /\ call' = << [Called(c) EXCEPT !.ret = v] >>
  /\ steps' = steps + 1
  /\ UNCHANGED << open_files, osErrno, out, crashed >>

OpBitmapFirstUnused(B) ==
  \E b \in B :
    LET r == bitmap_first_unused(disk, b.start, b.num, b.nbits)
    IN  BitmapStep(r.disk, r.loc,
                   [NoBitmapCall EXCEPT !.fn = "bitmap_first_unused", !.bitmap = b])

OpBitmapReset(b, I) ==
  \E ibit \in I :
    LET r == bitmap_reset(disk, b.start, b.num, ibit)
    IN  BitmapStep(r.disk, r.ret,
                   [NoBitmapCall EXCEPT !.fn = "bitmap_reset", !.bitmap = b,
                                        !.ibit = ibit])

(* indices freed: the first inode and the first data sector a create       *)
(* takes, and a sector whose bit lies in the second sector of the bitmap   *)
ResetInodes  == {1}
ResetSectors == {DATABLOCK_START_SECTOR, SECTOR_SIZE * 8 + 8}

(* the calls are mixed freely for MaxStepsMixed steps; after that only the *)
(* inode bitmap is allocated from, until MaxStepsBitmap calls were made    *)
MaxStepsMixed  == 4
MaxStepsBitmap == 35

NextBitmap ==
  \/ steps < MaxStepsBitmap /\ OpBitmapFirstUnused({InodeBitmap})
  \/ steps < MaxStepsMixed /\ OpBitmapFirstUnused({SectorBitmap})
  \/ steps < MaxStepsMixed /\ OpBitmapReset(InodeBitmap, ResetInodes)
  \/ steps < MaxStepsMixed /\ OpBitmapReset(SectorBitmap, ResetSectors)

SpecBitmap == Init /\ [][NextBitmap]_vars

(* the indices of all bits of the sectors of bitmap b *)
RegionBits(b) == 0..(b.num * SECTOR_SIZE * 8 - 1)

(* the indices in [0, capacity) of bitmap b whose bit is 0 in the image d *)
FreeBits(d, b) == {i \in 0..(b.capacity - 1) : ~BitmapBit(d, b.start, i)}

(* every sector outside bitmap b is the same in d and e *)
SameOutside(d, e, b) ==
  /\ DOMAIN d = DOMAIN e
  /\ \A s \in DOMAIN d : s \notin b.start..(b.start + b.num - 1) => d[s] = e[s]

(* C25: in the image FS_Boot formats, the bits of the sector bitmap with   *)
(* an index below DATABLOCK_START_SECTOR are 1 and every other bit of its  *)
(* sectors is 0, and bit 0 of the inode bitmap is 1 and every other bit of *)
(* its sectors is 0                                                        *)
C25_FormatSetsExactPrefix ==
  steps = 0 =>
    /\ \A i \in RegionBits(SectorBitmap) :
         BitmapBit(disk, SECTOR_BITMAP_START_SECTOR, i)
           <=> i < DATABLOCK_START_SECTOR
    /\ \A i \in RegionBits(InodeBitmap) :
         BitmapBit(disk, INODE_BITMAP_START_SECTOR, i) <=> i = 0

(* C26: bitmap_first_unused returns -1 only when every bit with an index   *)
(* in [0, capacity) of the bitmap was 1 before the call (capacity is       *)
(* MAX_FILES for the inode bitmap, TOTAL_SECTORS for the sector bitmap)    *)
C26_AllocateFailsOnlyWhenFull ==
  (Made({"bitmap_first_unused"}) /\ ret = -1) =>
    FreeBits(call[1].pre.disk, call[1].bitmap) = {}

(* C27: when bitmap_first_unused returns an index, it is the smallest      *)
(* index in [0, capacity) whose bit was 0, bit k of sector s of the bitmap *)
(* having index s * SECTOR_SIZE * 8 + k; that bit is 1 after the call and  *)
(* every other bit of the bitmap, and every other sector, is as before     *)
C27_AllocateSetsTheBitItReturns ==
  (Made({"bitmap_first_unused"}) /\ ret >= 0) =>
    LET b      == call[1].bitmap
        before == call[1].pre.disk
    IN  /\ ret \in FreeBits(before, b)
        /\ \A i \in FreeBits(before, b) : ret <= i
        /\ \A i \in RegionBits(b) :
             BitmapBit(disk, b.start, i)
               <=> (BitmapBit(before, b.start, i) \/ i = ret)
        /\ SameOutside(disk, before, b)

(* C28: bitmap_reset of an index in [0, capacity) leaves the bit with that *)
(* index 0 and every other bit of every sector of the bitmap, and every    *)
(* other sector, as before                                                 *)
C28_ResetClearsTheBitItIsGiven ==
  (Made({"bitmap_reset"}) /\ call[1].ibit \in 0..(call[1].bitmap.capacity - 1)) =>
    LET b      == call[1].bitmap
        before == call[1].pre.disk
    IN  /\ \A i \in RegionBits(b) :
             BitmapBit(disk, b.start, i)
               <=> (BitmapBit(before, b.start, i) /\ i # call[1].ibit)
        /\ SameOutside(disk, before, b)


(***************************************************************************)
(* Specification of failing calls: the creates, Dir_Unlink, Dir_Size and   *)
(* Dir_Read on paths that name the root, a file, a directory or nothing,   *)
(* Dir_Read with a buffer of 0 bytes and with one of full capacity.        *)
(***************************************************************************)
ErrPaths == {P_root, P_a, P_d, P_e}

MaxStepsErr == 3

NextErr ==
  \/ steps < MaxStepsErr /\ OpFileCreate({P_a}, 1)
  \/ steps < MaxStepsErr /\ OpDirCreate({P_d}, 1)
  \/ steps < MaxStepsErr /\ OpDirUnlink(ErrPaths, 1)
  \/ steps < MaxStepsErr /\ OpDirSize(ErrPaths, 1)
  \/ steps < MaxStepsErr /\ OpDirRead(ErrPaths, {0, DirCapacity}, 1)

SpecErr == Init /\ [][NextErr]_vars

(* the codes of the error taxonomy *)
Taxonomy ==
  {E_GENERAL, E_CREATE, E_NO_SUCH_FILE, E_NO_SUCH_DIR, E_TOO_MANY_OPEN_FILES,
   E_BAD_FD, E_FILE_IN_USE, E_FILE_TOO_BIG, E_NO_SPACE, E_SEEK_OUT_OF_BOUNDS,
   E_DIR_NOT_EMPTY, E_ROOT_DIR, E_BUFFER_TOO_SMALL}

(* C29: a call of the API that returns -1 has stored a code of the         *)
(* taxonomy in osErrno: when osErrno held no code before the call (no call *)
(* had failed yet), it holds one after it                                  *)
C29_FailureSetsErrno ==
  (/\ Made({"File_Create", "Dir_Create", "File_Open", "File_Unlink",
            "Dir_Unlink", "Dir_Size", "Dir_Read", "File_Close", "File_Seek",
            "File_Read", "File_Write"})
   /\ ret = -1
   /\ call[1].pre.err = E_NONE) =>
    osErrno \in Taxonomy


(* the open-file tables of and og hold the same in every slot but those of X *)
SameSlotsBut(of, og, X) ==
  \A i \in (0..(MAX_OPEN_FILES - 1)) \ X : Slot(of, i) = Slot(og, i)

(* C30: a File_Close or File_Seek of a descriptor outside                  *)
(* [0, MAX_OPEN_FILES), or whose slot holds no inode (never opened, or     *)
(* closed), returns -1 with osErrno E_BAD_FD and changes no slot; a        *)
(* File_Close that returns 0 leaves slot fd free and every other slot as   *)
(* it was                                                                  *)
C30_CloseAndSeekRejectUnopened ==
  Made({"File_Close", "File_Seek"}) =>
    LET before == call[1].pre.of
        fd     == call[1].fd
    IN  /\ (fd \notin 0..(MAX_OPEN_FILES - 1) \/ Slot(before, fd).inode <= 0) =>
             /\ ret = -1
             /\ osErrno = E_BAD_FD
             /\ SameSlotsBut(open_files, before, {})
        /\ (call[1].fn = "File_Close" /\ ret = 0) =>
             /\ Slot(open_files, fd).inode = 0
             /\ SameSlotsBut(open_files, before, {fd})


(***************************************************************************)
(* Specification of descriptors in File_Read and File_Write: two files,    *)
(* File_Open of the second one, reads and writes of one byte on the        *)
(* descriptors 0 and 1, open or not.                                       *)
(***************************************************************************)
FdFiles == {P_a, P_b}
FdFds   == {0, 1}

MaxStepsFd == 5

NextFd ==
  \/ steps < MaxStepsFd /\ OpFileCreate(FdFiles, 1)
  \/ steps < MaxStepsFd /\ OpFileOpen({P_b}, 1)
  \/ steps < MaxStepsFd /\ OpFileRead(FdFds, {1}, 1)
  \/ steps < MaxStepsFd /\ OpFileWrite(FdFds, {1}, {0}, 1)

SpecFd == Init /\ [][NextFd]_vars

(* C31: a File_Read or File_Write of a descriptor whose slot holds an      *)
(* inode (File_Open returned it and it was not closed) does not fail with  *)
(* E_BAD_FD, whatever the descriptor and whatever the other slots hold;    *)
(* on a descriptor whose slot holds none it returns -1 with osErrno        *)
(* E_BAD_FD and leaves the open-file table and the disk as they were       *)
C31_ReadWriteAcceptOpenDescriptors ==
  Made({"File_Read", "File_Write"}) =>
    LET before == call[1].pre
        fd     == call[1].fd
        open   == fd \in 0..(MAX_OPEN_FILES - 1) /\ Slot(before.of, fd).inode > 0
    IN  /\ open => ~(ret = -1 /\ osErrno = E_BAD_FD /\ before.err # E_BAD_FD)
        /\ ~open =>
             /\ ret = -1
             /\ osErrno = E_BAD_FD
             /\ SameSlotsBut(open_files, before.of, {})
             /\ disk = before.disk


(***************************************************************************)
(* Specification of a directory that fills up: seven names created in the  *)
(* root, one more than MAX_SECTORS_PER_FILE * DIRENTS_PER_SECTOR.          *)
(***************************************************************************)
P_f == << SLASH, 102 >>
P_g == << SLASH, 103 >>

FullFiles == {P_a, P_b, P_c, P_e, P_f, P_g}
FullDirs  == {P_d}

MaxStepsFull == 7

NextFull ==
  \/ steps < MaxStepsFull /\ OpFileCreate(FullFiles, 1)
  \/ steps < MaxStepsFull /\ OpDirCreate(FullDirs, 1)

SpecFull == Init /\ [][NextFull]_vars

(* C32: a create in the root, when the root already holds                  *)
(* MAX_SECTORS_PER_FILE * DIRENTS_PER_SECTOR entries, returns -1 with      *)
(* osErrno E_CREATE; and no create in the root changes the record of       *)
(* inode 1, the allocated inode stored next to the root's inode in the     *)
(* same inode-table sector                                                 *)
C32_CreateInFullDirectoryFails ==
  Made({"File_Create", "Dir_Create"}) =>
    LET before == call[1].pre
        full   == InodeRecord(before.disk, 0).size
                    = MAX_SECTORS_PER_FILE * DIRENTS_PER_SECTOR
    IN  /\ full => ret = -1 /\ osErrno = E_CREATE
        /\ InodeAllocated(before.disk, 1) =>
             InodeRecord(disk, 1) = InodeRecord(before.disk, 1)

=============================================================================
